---- MODULE Spec2Model ----
(***************************************************************************)
(* Label derivation and window sampling of the dataset layer               *)
(* (src/datasets/*.py), the segment-to-frame head of the model             *)
(* (src/models/effcientnet.py), and the evaluation passes and the end of   *)
(* a run of the training script (src/high_freq_and_low_freq.py).           *)
(*                                                                         *)
(* Specifications: Spec (sequential, additional-label and with-FP          *)
(* datasets), SpecLoader (an epoch of the sequential loader), SpecMixup    *)
(* (waveform and spectrogram mixup datasets), SpecRedraw (the partner's    *)
(* re-draw loop, one draw a step, under fair draws), SpecHead (the head's  *)
(* attention pooling and upsampling), SpecNorm (normalize_melspec),        *)
(* SpecSubmit (the asserts before submission.csv), SpecEval (grouping of   *)
(* a pass's outputs).                                                      *)
(*                                                                         *)
(* Time is counted in ticks of 1/40 s, so that 0.1 s (the arange step) is  *)
(* 4 ticks and the halves the samplers take (call_duration / 2,            *)
(* (duration - call_duration) / 2) are whole numbers for event times on    *)
(* the 0.05 s grid.  Arithmetic is exact: the rounding of binary floating  *)
(* point (np.arange's length, the quotient by seconds_per_frame) is not    *)
(* modelled.  Label values are counted in thousandths (1.0 is 1000).       *)
(***************************************************************************)
EXTENDS Integers, Sequences, FiniteSets, TLC

VARIABLES tp0,      \* the true-positive event table handed to every dataset
          ds,       \* the dataset object built by __init__
          out,      \* what the last __getitem__ returned (or the error it raised),
                    \* or the fetch that is inside its re-draw loop
          loader,   \* the sequential loader: next index and what it produced
          head,     \* what the last forward of the model head returned
          norm,     \* the last array normalize_melspec was given and returned
          run,      \* the end of a run: the tables compared, the files written
          ev        \* an evaluation or inference pass over a loader

vars == <<tp0, ds, out, loader, head, norm, run, ev>>

-----------------------------------------------------------------------------
(* Units *)

Sec(x) == 40 * x        \* seconds to ticks
Ds(x) == 4 * x          \* tenths of a second to ticks

Min(a, b) == IF a <= b THEN a ELSE b
Max(a, b) == IF a >= b THEN a ELSE b

\* Python's int() of a quotient a / b (b > 0): truncation toward zero
IntDiv(a, b) == IF a >= 0 THEN a \div b ELSE -((-a) \div b)

\* math.floor of the same quotient
FloorDiv(a, b) == a \div b

-----------------------------------------------------------------------------
(* Program constants *)

\* from .constants import N_CLASSES, CLIP_DURATION, CLASS_MAP
N_CLASSES == 24
CLIP_DURATION == 2400

\* the joint species/songtype keys: two species have two songtypes each
KeyList ==
  [i \in 1..(N_CLASSES + 2) |->
     IF i <= 17 THEN <<i - 1, IF i = 17 THEN 4 ELSE 1>>
     ELSE IF i = 18 THEN <<17, 1>>
     ELSE IF i = 19 THEN <<17, 4>>
     ELSE IF i <= 24 THEN <<i - 2, 1>>
     ELSE IF i = 25 THEN <<23, 1>> ELSE <<23, 4>>]

Keys == {KeyList[i] : i \in DOMAIN KeyList}

CLASS_MAP == [k \in Keys |-> (CHOOSE i \in DOMAIN KeyList : KeyList[i] = k) - 1]

\* duration=10 (constructor default), in ticks
DefaultDuration == 400

\* the 0.1 s step of np.arange, in ticks
Step == 4

\* the label value 1.0, in thousandths
One == 1000

\* additional_label_value=0.8, in thousandths
DefaultAdditionalValue == 800

\* mixup_prob=0.5, in thousandths
DefaultMixupProb == 500

-----------------------------------------------------------------------------
(* Bounds of the model *)

\* rows of the event table
MaxEvents == 8

\* n_frames = image.shape[2], the width of the feature image
MaxFrames == 4

\* frames_num = input.size(3), the width of the head's input
MaxFramesNum == 17

\* segments the backbone yields along time
MaxSegments == 5

\* rows of the event table the mixup datasets are built from
MaxMixupEvents == 6

\* entries of the array normalize_melspec is given
MaxPixels == 4

\* the largest value of such an entry
MaxLevel == 2

\* rows of the sample submission and of the prediction table before grouping
MaxRows == 3

\* windows a loader yields in one pass
MaxWindows == 3

-----------------------------------------------------------------------------
(* The event tables (train_tp.csv, train_fp.csv) *)

Ev(i, r, a, b, s, t) ==
  [index |-> i, recording_id |-> r, t_min |-> a, t_max |-> b,
   species_id |-> s, songtype_id |-> t]

\* candidate rows of the true-positive table; times in tenths of a second
AllEvents ==
  << Ev(0, "r1", Ds(120), Ds(124), 3, 1),     \* a short call
     Ev(1, "r1", Ds(10), Ds(50), 17, 4),      \* ends where a window may start
     Ev(2, "r1", Ds(150), Ds(410), 23, 1),    \* longer than the window
     Ev(3, "r2", Ds(0), Ds(15), 0, 1),        \* starts with the recording
     Ev(4, "r2", Ds(570), Ds(595), 3, 1),     \* near the recording's end
     Ev(5, "r2", Ds(300), Ds(400), 16, 4),    \* exactly as long as the window
     Ev(6, "r1", Ds(122), Ds(130), 3, 1),     \* same species, overlapping row 0
     Ev(7, "r3", Ds(200), Ds(220) + 2, 17, 1),\* off the 0.1 s grid
     Ev(8, "r3", Ds(400), Ds(440), 5, 1) >>

\* candidate rows of the false-positive table
AllFalsePositives ==
  << Ev(0, "r4", Ds(100), Ds(120), 3, 1),
     Ev(1, "r1", Ds(300), Ds(320), 5, 1),
     Ev(9, "r5", Ds(50), Ds(80), 17, 4) >>

\* candidate rows of the true-positive table for the mixup datasets: events
\* close to the recording's edges, so that a window of a second or two has
\* few offsets to be drawn from
AllMixupEvents ==
  << Ev(0, "r1", Ds(3), Ds(5), 3, 1),         \* a short call
     Ev(1, "r1", Ds(2), Ds(26), 5, 1),        \* longer than the window
     Ev(2, "r2", Ds(4), Ds(9), 3, 1),         \* row 0's species, another recording
     Ev(3, "r2", Ds(0), Ds(5), 7, 1),         \* starts with the recording
     Ev(4, "r1", Ds(6), Ds(8), 9, 1),         \* next to row 0
     Ev(5, "r3", Ds(595), Ds(599), 3, 1),     \* near the recording's end
     Ev(6, "r3", Ds(5), Ds(7), 11, 1) >>

\* recordings with an audio file, in the order of train_all
AllRecordings == <<"r1", "r2", "r3", "r4", "r5">>

\* tp["species_id_song_id"] = species_id + "_" + songtype_id
species_id_song_id(e) == <<e.species_id, e.songtype_id>>

RecordingIds(table) == {table[i].recording_id : i \in DOMAIN table}

SeqRange(s) == {s[i] : i \in DOMAIN s}

\* df[df.recording_id.isin(S)].reset_index(drop=True)
IsIn(table, S) == SelectSeq(table, LAMBDA e : e.recording_id \in S)

\* the rows of train_all of one fold
FoldRows(S) == SelectSeq(AllRecordings, LAMBDA r : r \in S)

\* candidate rows of the auxiliary weak-label file {filename, species}
AllAdditionalLabels ==
  << [filename |-> "r1", species |-> 3],
     [filename |-> "r1", species |-> 7],
     [filename |-> "r2", species |-> 0] >>

-----------------------------------------------------------------------------
(* Window sampler *)

\* an empty range replaced by its start
ArangeOrStart(start, stop) ==
  IF stop <= start THEN {start}
  ELSE {start + Step * k : k \in 0..(((stop - start + Step - 1) \div Step) - 1)}

\* np.arange(start, stop, 0.1)
Arange(start, stop) ==
  IF stop <= start THEN {}
  ELSE {start + Step * k : k \in 0..(((stop - start + Step - 1) \div Step) - 1)}

\* x / 2 of a time on the 0.05 s grid
Half(x) == x \div 2

\* the interval np.random.choice draws from when call_duration > duration
LongCandidates(t_min, t_max) ==
  LET call_duration == t_max - t_min
  IN Arange(Max(t_min - Half(call_duration), 0), t_min + Half(call_duration))

\* the interval begun one window before the event's start, not its end
ShortCandidatesFromStart(t_min, t_max, duration) ==
  Arange(Max(t_min - duration, 0), t_min)

\* the interval np.random.choice draws from otherwise
ShortCandidates(t_min, t_max, duration) ==
  Arange(Max(t_max - duration, 0), t_min)

\* the clamp left out
ClampEndMissing(offset, duration) == offset

\* offset = min(CLIP_DURATION - self.duration, offset)
ClampEnd(offset, duration) == Min(CLIP_DURATION - duration, offset)

\* the candidates of the mixup datasets' sampler: long- or short-event branch
RandomCandidates(t_min, t_max, duration) ==
  IF t_max - t_min > duration
  THEN LongCandidates(t_min, t_max)
  ELSE ShortCandidates(t_min, t_max, duration)

\* the halving of the slack left out
CenteredOffsetNoHalf(t_min, t_max, duration) ==
  LET call_duration == t_max - t_min
      relative_offset == duration - call_duration
  IN Min(Max(0, t_min - relative_offset), CLIP_DURATION - duration)

\* centering=True: the event in the middle of the window, clamped
CenteredOffset(t_min, t_max, duration) ==
  LET call_duration == t_max - t_min
      relative_offset == Half(duration - call_duration)
  IN Min(Max(0, t_min - relative_offset), CLIP_DURATION - duration)

\* the chunk count rounded up
NChunkPerClipCeil(duration) == (CLIP_DURATION + duration - 1) \div duration

\* sequential validation: n_chunk_per_clip = CLIP_DURATION // self.duration
NChunkPerClip(duration) == CLIP_DURATION \div duration

-----------------------------------------------------------------------------
(* Label builder *)

\* the overlap test with the window's edges included
QueryEventsClosed(tp, flac_id, offset, tail) ==
  SelectSeq(tp, LAMBDA e : /\ e.recording_id = flac_id
                           /\ e.t_min <= tail
                           /\ e.t_max >= offset)

\* self.tp.query("recording_id == flac_id & t_min < tail & t_max > offset")
QueryEvents(tp, flac_id, offset, tail) ==
  SelectSeq(tp, LAMBDA e : /\ e.recording_id = flac_id
                           /\ e.t_min < tail
                           /\ e.t_max > offset)

\* np.zeros(n) and np.zeros((n_frames, n))
Zeros(n) == [c \in 0..(n - 1) |-> 0]
Zeros2(n_frames, n) == [f \in 0..(n_frames - 1) |-> Zeros(n)]

\* only the first row's species set
SetSpeciesFirstRow(label, events, v) ==
  [c \in DOMAIN label |->
     IF events # <<>> /\ events[1].species_id = c THEN v ELSE label[c]]

\* for species_id in events["species_id"].unique(): label[int(species_id)] = v
SetSpecies(label, events, v) ==
  [c \in DOMAIN label |->
     IF \E i \in DOMAIN events : events[i].species_id = c THEN v ELSE label[c]]

\* for key in events["species_id_song_id"].unique(): songtype_label[CLASS_MAP[key]] = v
SetSongtypes(label, events, v) ==
  [c \in DOMAIN label |->
     IF \E i \in DOMAIN events : CLASS_MAP[species_id_song_id(events[i])] = c
     THEN v ELSE label[c]]

\* math.floor in place of int()
FrameIndexFloor(t, offset, duration, n_frames) ==
  FloorDiv((t - offset) * n_frames, duration)

\* int((t - offset) / seconds_per_frame), seconds_per_frame = duration / n_frames
FrameIndex(t, offset, duration, n_frames) ==
  IntDiv((t - offset) * n_frames, duration)

\* a negative start clamped to the first row instead of counted from the end
SliceIndicesClamped(start, end, n) ==
  {f \in 0..(n - 1) : Max(start, 0) <= f /\ f < Min(end, n)}

\* the rows a[start:end] selects on an axis of length n (Python slice rules)
SliceIndices(start, end, n) ==
  LET s == IF start < 0 THEN Max(start + n, 0) ELSE Min(start, n)
      e == IF end < 0 THEN Max(end + n, 0) ELSE Min(end, n)
  IN {f \in 0..(n - 1) : s <= f /\ f < e}

\* the row at end written as well
SliceAssignInclusive(a, start, end, col, v, n) ==
  [f \in DOMAIN a |->
     IF f \in SliceIndices(start, end + 1, n) THEN [a[f] EXCEPT ![col] = v] ELSE a[f]]

\* a[start:end, col] = v
SliceAssign(a, start, end, col, v, n) ==
  [f \in DOMAIN a |->
     IF f \in SliceIndices(start, end, n) THEN [a[f] EXCEPT ![col] = v] ELSE a[f]]

\* the (start_index, end_index) pair of every row of events, in row order
FrameSpans(events, offset, duration, n_frames) ==
  [i \in DOMAIN events |->
     [start_index |-> FrameIndex(events[i].t_min, offset, duration, n_frames),
      end_index |-> FrameIndex(events[i].t_max, offset, duration, n_frames)]]

\* for _, row in events.iterrows(): strong_label[start:end, species_id] = v
RECURSIVE WriteStrong(_, _, _, _, _, _, _)
WriteStrong(strong, events, offset, duration, n_frames, v, i) ==
  IF i > Len(events) THEN strong
  ELSE LET spans == FrameSpans(events, offset, duration, n_frames)
       IN WriteStrong(SliceAssign(strong, spans[i].start_index, spans[i].end_index,
                                  events[i].species_id, v, n_frames),
                      events, offset, duration, n_frames, v, i + 1)

\* the songtype dropped from the key
RECURSIVE WriteStrongSongtypeFirstKey(_, _, _, _, _, _, _)
WriteStrongSongtypeFirstKey(strong, events, offset, duration, n_frames, v, i) ==
  IF i > Len(events) THEN strong
  ELSE LET spans == FrameSpans(events, offset, duration, n_frames)
       IN WriteStrongSongtypeFirstKey(
            SliceAssign(strong, spans[i].start_index, spans[i].end_index,
                        CLASS_MAP[<<events[i].species_id,
                                    IF events[i].species_id = 16 THEN 4 ELSE 1>>],
                        v, n_frames),
            events, offset, duration, n_frames, v, i + 1)

\* ...: songtype_strong_label[start:end, CLASS_MAP[species_id_song_id]] = v
RECURSIVE WriteStrongSongtype(_, _, _, _, _, _, _)
WriteStrongSongtype(strong, events, offset, duration, n_frames, v, i) ==
  IF i > Len(events) THEN strong
  ELSE LET spans == FrameSpans(events, offset, duration, n_frames)
       IN WriteStrongSongtype(
            SliceAssign(strong, spans[i].start_index, spans[i].end_index,
                        CLASS_MAP[species_id_song_id(events[i])], v, n_frames),
            events, offset, duration, n_frames, v, i + 1)

-----------------------------------------------------------------------------
(* Dataset objects *)

DatasetDefaults ==
  [kind |-> "none", df |-> <<>>, tp |-> <<>>, fp |-> <<>>,
   duration |-> DefaultDuration, n_frames |-> 1, centering |-> FALSE,
   has_additional_labels |-> FALSE, additional_labels |-> <<>>,
   additional_label_value |-> DefaultAdditionalValue,
   mixup_prob |-> DefaultMixupProb,
   float_label |-> FALSE, no_lambda |-> FALSE]

\* the event table kept whole: only df is cut down to the shared recordings
InitTablesUnfiltered(self, df, tp) ==
  LET intersection == SeqRange(df) \cap RecordingIds(tp)
  IN [self EXCEPT !.df = SelectSeq(df, LAMBDA r : r \in intersection),
                  !.tp = tp]

\* the constructor's first lines: keep the recordings df and tp share
InitTables(self, df, tp) ==
  LET intersection == SeqRange(df) \cap RecordingIds(tp)
  IN [self EXCEPT !.df = SelectSeq(df, LAMBDA r : r \in intersection),
                  !.tp = IsIn(tp, intersection)]

\* SequentialValidationDataset.__init__
SequentialValidationDataset(df, tp, duration, n_frames) ==
  [InitTables(DatasetDefaults, df, tp) EXCEPT
     !.kind = "Sequential", !.duration = duration, !.n_frames = n_frames]

\* AdditionalLabellDataset.__init__: additional_labels is set only with a path
AdditionalLabellDataset(df, tp, duration, n_frames, centering, with_path) ==
  [InitTables(DatasetDefaults, df, tp) EXCEPT
     !.kind = "Additional", !.duration = duration, !.n_frames = n_frames,
     !.centering = centering,
     !.has_additional_labels = with_path,
     !.additional_labels = IF with_path THEN AllAdditionalLabels ELSE <<>>]

\* LogmelMixupWithFPDataset.__init__: fp keeps the fold's recordings without tp
LogmelMixupWithFPDataset(df, tp, fp, duration, n_frames) ==
  LET intersection_tp == SeqRange(df) \cap RecordingIds(tp)
      intersection_fp == SeqRange(df) \cap RecordingIds(fp)
      intersection_fp_without_tp == intersection_fp \ intersection_tp
  IN [DatasetDefaults EXCEPT
        !.kind = "WithFP", !.duration = duration, !.n_frames = n_frames,
        !.tp = IsIn(tp, intersection_tp),
        !.fp = IsIn(fp, intersection_fp_without_tp)]

\* __len__
DatasetLen(self) ==
  IF self.kind = "Sequential"
  THEN Len(self.df) * NChunkPerClip(self.duration)
  ELSE Len(self.tp)

-----------------------------------------------------------------------------
(* __getitem__ *)

\* lam before np.random.beta has run
NoLam == -1

NoItem ==
  [status |-> "none", error |-> "", idx |-> 0, index |-> 0,
   recording_id |-> "", segment_id |-> 0, offset |-> 0,
   events |-> <<>>, spans |-> <<>>,
   weak |-> <<>>, strong |-> <<>>,
   weak_songtype |-> <<>>, strong_songtype |-> <<>>,
   use_mixup |-> FALSE, mixup_index |-> -1,
   mixup_recording_id |-> "", mixup_offset |-> 0, mixup_events |-> <<>>,
   mixup_spans |-> <<>>, lam |-> NoLam]

Raised(error, idx) == [NoItem EXCEPT !.status = "error", !.error = error, !.idx = idx]

\* the four label tensors of a window without mixup (value 1.0 everywhere)
Targets(self, item, flac_id, offset) ==
  LET tail == offset + self.duration
      all_tp_events == QueryEvents(self.tp, flac_id, offset, tail)
      n_frames == self.n_frames
  IN [item EXCEPT
        !.status = "ok",
        !.recording_id = flac_id,
        !.offset = offset,
        !.events = all_tp_events,
        !.spans = FrameSpans(all_tp_events, offset, self.duration, n_frames),
        !.weak = SetSpecies(Zeros(N_CLASSES), all_tp_events, One),
        !.weak_songtype = SetSongtypes(Zeros(N_CLASSES + 2), all_tp_events, One),
        !.strong = WriteStrong(Zeros2(n_frames, N_CLASSES), all_tp_events,
                               offset, self.duration, n_frames, One, 1),
        !.strong_songtype = WriteStrongSongtype(Zeros2(n_frames, N_CLASSES + 2),
                               all_tp_events, offset, self.duration, n_frames, One, 1)]

\* SequentialValidationDataset.__getitem__(idx_)
SequentialGetItem(self, idx_) ==
  LET n_chunk_per_clip == NChunkPerClip(self.duration)
      idx == idx_ \div n_chunk_per_clip
      segment_id == idx_ % n_chunk_per_clip
      sample == self.tp[idx + 1]
      offset == segment_id * self.duration
  IN IF idx >= Len(self.tp) THEN Raised("KeyError", idx_)
     ELSE Targets(self, [NoItem EXCEPT !.idx = idx_, !.segment_id = segment_id],
                  sample.recording_id, offset)

\* the confidence value written only where no event had set the entry
OverrideBlend(self, flac_id, label) ==
  [c \in DOMAIN label |->
     IF /\ label[c] = 0
        /\ \E i \in DOMAIN self.additional_labels :
             /\ self.additional_labels[i].filename = flac_id
             /\ self.additional_labels[i].species = c
     THEN self.additional_label_value ELSE label[c]]

\* for _, row in additional_label.iterrows(): label[int(row.species)] = value
Override(self, flac_id, label) ==
  [c \in DOMAIN label |->
     IF \E i \in DOMAIN self.additional_labels :
          /\ self.additional_labels[i].filename = flac_id
          /\ self.additional_labels[i].species = c
     THEN self.additional_label_value ELSE label[c]]

\* the offsets AdditionalLabellDataset.__getitem__ can draw for a row
AdditionalOffsets(self, sample) ==
  IF ~self.centering
  THEN {ClampEnd(o, self.duration) :
          o \in ShortCandidates(sample.t_min, sample.t_max, self.duration)}
  ELSE {CenteredOffset(sample.t_min, sample.t_max, self.duration)}

\* AdditionalLabellDataset.__getitem__(idx) with the offset drawn
AdditionalGetItem(self, idx, offset) ==
  LET sample == self.tp[idx + 1]
      item == Targets(self, [NoItem EXCEPT !.idx = idx, !.index = sample.index],
                      sample.recording_id, offset)
  IN IF ~self.has_additional_labels THEN Raised("AttributeError", idx)
     ELSE [item EXCEPT !.weak = Override(self, sample.recording_id, item.weak)]

\* np.random.rand() < self.mixup_prob: the outcomes the draw can have
MixupDraws(self) ==
  IF self.mixup_prob <= 0 THEN {FALSE}
  ELSE IF self.mixup_prob >= One THEN {TRUE} ELSE {FALSE, TRUE}

\* the first row drawn taken as the partner, whatever its index
PartnersAny(pool, index) == DOMAIN pool

\* the rows the re-draw loop can leave with: any row whose index differs
Partners(pool, index) == {i \in DOMAIN pool : pool[i].index # index}

\* LogmelMixupWithFPDataset.__getitem__(idx) with the draws made; partner is
\* the row of self.fp the loop left with (0: the loop never leaves)
WithFPGetItem(self, idx, offset, use_mixup, partner) ==
  LET sample == self.tp[idx + 1]
      item == Targets(self, [NoItem EXCEPT !.idx = idx, !.index = sample.index],
                      sample.recording_id, offset)
  IN IF ~use_mixup THEN item
     ELSE IF Len(self.fp) = 0 THEN Raised("ValueError", idx)
     ELSE IF partner = 0 THEN [NoItem EXCEPT !.status = "hang", !.idx = idx]
     ELSE IF Arange(0, CLIP_DURATION - self.duration) = {} THEN Raised("ValueError", idx)
     ELSE [item EXCEPT !.use_mixup = TRUE, !.mixup_index = self.fp[partner].index]

-----------------------------------------------------------------------------
(* The mixup datasets *)

\* WaveformMixupDataset.__init__
WaveformMixupDataset(df, tp, duration, n_frames, float_label) ==
  [InitTables(DatasetDefaults, df, tp) EXCEPT
     !.kind = "WaveformMixup", !.duration = duration, !.n_frames = n_frames,
     !.float_label = float_label]

\* LogmelMixupDataset.__init__
LogmelMixupDataset(df, tp, duration, n_frames, float_label, no_lambda) ==
  [InitTables(DatasetDefaults, df, tp) EXCEPT
     !.kind = "LogmelMixup", !.duration = duration, !.n_frames = n_frames,
     !.float_label = float_label, !.no_lambda = no_lambda]

\* the values np.random.beta(alpha, alpha) is drawn from, in thousandths
Lams == {300, 500}

\* lam = np.random.beta(...): skipped by the spectrogram variant's no_lambda
LamDraws(self) == IF self.no_lambda THEN {NoLam} ELSE Lams

\* np.arange(max(mixup_t_max - self.duration, 0), mixup_t_min, 0.1): the
\* candidates of the partner's offset
MixupCandidates(t_min, t_max, duration) ==
  ShortCandidates(t_min, t_max, duration)

\* the primary's weight given to the secondary as well
SecondaryValueLam(float_label, lam) == IF float_label THEN lam ELSE One

\* the value the secondary's events are written with: 1 - lam or 1.0
SecondaryValue(float_label, lam) == IF float_label THEN One - lam ELSE One

\* lam written for the primary whatever float_label says
PrimaryValueAlwaysLam(float_label, lam) == lam

\* the value the primary's events are written with: lam or 1.0
PrimaryValue(float_label, lam) == IF float_label THEN lam ELSE One

\* label and strong_label of a mixup dataset; primary_value and
\* secondary_value are what the float_label tests select
MixupTargets(self, item, flac_id, offset, use_mixup, mixup_sample, mixup_offset, primary_value, secondary_value) ==
  LET tail == offset + self.duration
      all_tp_events == QueryEvents(self.tp, flac_id, offset, tail)
      mixup_tail == mixup_offset + self.duration
      mixup_tp_events ==
        IF use_mixup
        THEN QueryEvents(self.tp, mixup_sample.recording_id, mixup_offset, mixup_tail)
        ELSE <<>>
      n_frames == self.n_frames
      label == SetSpecies(Zeros(N_CLASSES), all_tp_events, primary_value)
      strong_label == WriteStrong(Zeros2(n_frames, N_CLASSES), all_tp_events,
                                  offset, self.duration, n_frames, primary_value, 1)
  IN [item EXCEPT
        !.status = "ok",
        !.recording_id = flac_id,
        !.offset = offset,
        !.events = all_tp_events,
        !.spans = FrameSpans(all_tp_events, offset, self.duration, n_frames),
        !.use_mixup = use_mixup,
        !.mixup_index = IF use_mixup THEN mixup_sample.index ELSE -1,
        !.mixup_recording_id = IF use_mixup THEN mixup_sample.recording_id ELSE "",
        !.mixup_offset = IF use_mixup THEN mixup_offset ELSE 0,
        !.mixup_events = mixup_tp_events,
        !.mixup_spans = FrameSpans(mixup_tp_events, mixup_offset, self.duration,
                                   n_frames),
        !.weak = IF use_mixup
                 THEN SetSpecies(label, mixup_tp_events, secondary_value)
                 ELSE label,
        !.strong = IF use_mixup
                   THEN WriteStrong(strong_label, mixup_tp_events, mixup_offset,
                                    self.duration, n_frames, secondary_value, 1)
                   ELSE strong_label]

\* WaveformMixupDataset.__getitem__(idx) with the draws made
WaveformMixupGetItem(self, idx, offset, use_mixup, partner, mixup_offset, lam) ==
  LET sample == self.tp[idx + 1]
      mixup_sample == IF use_mixup THEN self.tp[partner] ELSE sample
  IN MixupTargets(self,
       [NoItem EXCEPT !.idx = idx, !.index = sample.index,
                      !.lam = IF use_mixup THEN lam ELSE NoLam],
       sample.recording_id, offset, use_mixup, mixup_sample, mixup_offset,
       PrimaryValue(self.float_label /\ use_mixup, lam),
       SecondaryValue(self.float_label, lam))

\* LogmelMixupDataset.__getitem__(idx) with the draws made
LogmelMixupGetItem(self, idx, offset, use_mixup, partner, mixup_offset, lam) ==
  LET sample == self.tp[idx + 1]
      mixup_sample == IF use_mixup THEN self.tp[partner] ELSE sample
  IN MixupTargets(self,
       [NoItem EXCEPT !.idx = idx, !.index = sample.index,
                      !.lam = IF use_mixup THEN lam ELSE NoLam],
       sample.recording_id, offset, use_mixup, mixup_sample, mixup_offset,
       PrimaryValue(self.float_label /\ use_mixup /\ ~self.no_lambda, lam),
       SecondaryValue(self.float_label /\ ~self.no_lambda, lam))

\* a fetch that ended after the partner was chosen
RaisedInMixup(error, idx, sample, mixup_sample) ==
  [Raised(error, idx) EXCEPT
     !.index = sample.index, !.recording_id = sample.recording_id,
     !.use_mixup = TRUE, !.mixup_index = mixup_sample.index,
     !.mixup_recording_id = mixup_sample.recording_id]

-----------------------------------------------------------------------------
(* normalize_melspec *)

\* 1 / eps for eps = 1e-6; the entries of X are integers on the grid eps * eps,
\* so that eps itself is EpsInv grid steps
EpsInv == 1000000

RECURSIVE SeqSum(_)
SeqSum(s) == IF s = <<>> THEN 0 ELSE Head(s) + SeqSum(Tail(s))

\* X.min() and X.max()
MinOf(data) == CHOOSE m \in SeqRange(data) : \A v \in SeqRange(data) : m <= v
MaxOf(data) == CHOOSE m \in SeqRange(data) : \A v \in SeqRange(data) : v <= m

\* the integer part of a square root
ISqrt(v) == CHOOSE r \in 0..v : r * r <= v /\ (r + 1) * (r + 1) > v

\* the integer part of Len(data) * X.std(): the variance of X is
\* (n * sum(x^2) - sum(x)^2) / n^2
StdTimesLen(data) ==
  LET n == Len(data)
      squares == [i \in DOMAIN data |-> data[i] * data[i]]
  IN ISqrt(n * SeqSum(squares) - SeqSum(data) * SeqSum(data))

\* the range compared with 0 in place of eps
RangeExceedsZero(data) == MaxOf(data) - MinOf(data) > 0

\* (norm_max - norm_min) > eps for Xstd = (X - mean) / (std + eps): the range
\* of Xstd is (max - min) / (std + eps), so the test is
\* (max - min) > eps * std + eps * eps, on the grid
\* EpsInv * (max - min - 1) > std; both sides are multiplied by Len(X)
RangeExceedsEps(data) ==
  EpsInv * (MaxOf(data) - MinOf(data) - 1) * Len(data) > StdTimesLen(data)

\* normalize_melspec(X); X is {shape, data}, data the entries in row order
NormalizeMelspec(X) ==
  LET norm_min == MinOf(X.data)
      norm_max == MaxOf(X.data)
  IN IF RangeExceedsEps(X.data)
     THEN [shape |-> X.shape, divided |-> TRUE,
           data |-> [i \in DOMAIN X.data |->
                       (255 * (X.data[i] - norm_min)) \div (norm_max - norm_min)]]
     ELSE [shape |-> X.shape, divided |-> FALSE,
           data |-> [i \in DOMAIN X.data |-> 0]]

NoNorm == [status |-> "none"]

-----------------------------------------------------------------------------
(* The end of a run: the checks of the ensembled prediction, the files *)

\* the length check passed over
CheckLengthSkipped(prediction, submission) == TRUE

\* len(folds_prediction_df) == len(submission)
CheckLength(prediction, submission) ==
  Len(prediction.recording_id) = Len(submission.recording_id)

\* folds_prediction_df.shape[1] == submission.shape[1]
CheckColumns(prediction, submission) == prediction.columns = submission.columns

\* len(set(folds_prediction_df["recording_id"]) - set(submission["recording_id"])) == 0
CheckNoUnknown(prediction, submission) ==
  SeqRange(prediction.recording_id) \ SeqRange(submission.recording_id) = {}

\* len(set(submission["recording_id"]) - set(folds_prediction_df["recording_id"])) == 0
CheckNoMissing(prediction, submission) ==
  SeqRange(submission.recording_id) \ SeqRange(prediction.recording_id) = {}

\* the six out-of-fold files
OofFiles ==
  {"oof_high.csv", "oof_target_high.csv", "oof_low.csv", "oof_target_low.csv",
   "oof.csv", "oof_target.csv"}

NoRun ==
  [pc |-> "start", files |-> {},
   prediction |-> [recording_id |-> <<>>, columns |-> 0],
   submission |-> [recording_id |-> <<>>, columns |-> 0]]

-----------------------------------------------------------------------------
(* Grouping a table by recording_id *)

\* the distinct keys of a column, sorted; order lists all keys in sort order
GroupKeys(recording_ids, order) ==
  SelectSeq(order, LAMBDA r : r \in SeqRange(recording_ids))

\* the larger of two rows, column by column
RowMax(a, b) == [c \in DOMAIN a |-> Max(a[c], b[c])]

\* the maximum over the rows of one key from row i on, in row order
RECURSIVE Reduce(_, _, _, _)
Reduce(recording_ids, values, key, i) ==
  LET later == {j \in DOMAIN recording_ids : j > i /\ recording_ids[j] = key}
  IN IF later = {} THEN values[i]
     ELSE LET j == CHOOSE k \in later : \A l \in later : k <= l
          IN RowMax(values[i], Reduce(recording_ids, values, key, j))

\* the first row of every group kept
GroupbyFirst(recording_ids, values, order) ==
  LET keys == GroupKeys(recording_ids, order)
  IN [k \in DOMAIN keys |->
        [recording_id |-> keys[k],
         values |-> values[CHOOSE i \in DOMAIN recording_ids :
                             /\ recording_ids[i] = keys[k]
                             /\ \A j \in 1..(i - 1) : recording_ids[j] # keys[k]]]]

\* df.groupby("recording_id").max().reset_index(drop=False)
GroupbyMax(recording_ids, values, order) ==
  LET keys == GroupKeys(recording_ids, order)
  IN [k \in DOMAIN keys |->
        [recording_id |-> keys[k],
         values |-> Reduce(recording_ids, values, keys[k],
                           CHOOSE i \in DOMAIN recording_ids :
                             /\ recording_ids[i] = keys[k]
                             /\ \A j \in 1..(i - 1) : recording_ids[j] # keys[k])]]

\* np.concatenate(batches, axis=0)
RECURSIVE Concatenate(_)
Concatenate(batches) ==
  IF batches = <<>> THEN <<>> ELSE Head(batches) \o Concatenate(Tail(batches))

NoEval ==
  [pc |-> "start", mode |-> "", recording_ids |-> <<>>, preds |-> <<>>,
   targs |-> <<>>, oof_pred_df |-> <<>>, oof_targ_df |-> <<>>]

-----------------------------------------------------------------------------
(* The state machine: datasets are built from a fold and then fetched from *)

\* the folds a dataset is built for: sets of recordings of train_all
Folds == (SUBSET SeqRange(AllRecordings)) \ {{}}

\* the window lengths configured
Durations == {DefaultDuration, Sec(7)}

\* the widths the feature image can have
FrameCounts == 2..MaxFrames

NoHead == [status |-> "none"]

NoLoader == [pos |-> 0, produced |-> <<>>]

Init ==
  /\ tp0 = SubSeq(AllEvents, 1, MaxEvents)
  /\ ds = DatasetDefaults
  /\ out = NoItem
  /\ loader = NoLoader
  /\ head = NoHead
  /\ norm = NoNorm
  /\ run = NoRun
  /\ ev = NoEval

NewSequential ==
  /\ ds.kind = "none"
  /\ \E S \in Folds, duration \in Durations, n_frames \in FrameCounts :
       ds' = SequentialValidationDataset(FoldRows(S), tp0, duration, n_frames)
  /\ out' = NoItem
  /\ UNCHANGED <<tp0, loader, head, norm, run, ev>>

NewAdditional ==
  /\ ds.kind = "none"
  /\ \E S \in Folds, duration \in Durations, n_frames \in FrameCounts,
        centering \in BOOLEAN, with_path \in BOOLEAN :
       ds' = AdditionalLabellDataset(FoldRows(S), tp0, duration, n_frames,
                                     centering, with_path)
  /\ out' = NoItem
  /\ UNCHANGED <<tp0, loader, head, norm, run, ev>>

NewWithFP ==
  /\ ds.kind = "none"
  /\ \E S \in Folds, duration \in Durations, n_frames \in FrameCounts :
       ds' = LogmelMixupWithFPDataset(FoldRows(S), tp0, AllFalsePositives,
                                      duration, n_frames)
  /\ out' = NoItem
  /\ UNCHANGED <<tp0, loader, head, norm, run, ev>>

GetSequential ==
  /\ ds.kind = "Sequential"
  /\ out.status = "none"
  /\ \E idx_ \in 0..(DatasetLen(ds) - 1) : out' = SequentialGetItem(ds, idx_)
  /\ UNCHANGED <<tp0, ds, loader, head, norm, run, ev>>

GetAdditional ==
  /\ ds.kind = "Additional"
  /\ out.status = "none"
  /\ \E idx \in 0..(DatasetLen(ds) - 1) :
       LET offsets == AdditionalOffsets(ds, ds.tp[idx + 1])
       IN IF offsets = {} THEN out' = Raised("ValueError", idx)
          ELSE \E offset \in offsets : out' = AdditionalGetItem(ds, idx, offset)
  /\ UNCHANGED <<tp0, ds, loader, head, norm, run, ev>>

GetWithFP ==
  /\ ds.kind = "WithFP"
  /\ out.status = "none"
  /\ \E idx \in 0..(DatasetLen(ds) - 1) :
       LET sample == ds.tp[idx + 1]
           candidates == RandomCandidates(sample.t_min, sample.t_max, ds.duration)
           partners == Partners(ds.fp, sample.index)
       IN IF candidates = {} THEN out' = Raised("ValueError", idx)
          ELSE \E o \in candidates, use_mixup \in MixupDraws(ds),
                  partner \in IF partners = {} THEN {0} ELSE partners :
                 out' = WithFPGetItem(ds, idx, ClampEnd(o, ds.duration),
                                      use_mixup, partner)
  /\ UNCHANGED <<tp0, ds, loader, head, norm, run, ev>>

\* the training step takes the example; the bundle is discarded
Consume ==
  /\ out.status # "none"
  /\ out' = NoItem
  /\ UNCHANGED <<tp0, ds, loader, head, norm, run, ev>>

\* the fold is over: its dataset is dropped
Discard ==
  /\ ds.kind # "none"
  /\ out.status = "none"
  /\ ds' = DatasetDefaults
  /\ UNCHANGED <<tp0, out, loader, head, norm, run, ev>>

Next ==
  \/ NewSequential
  \/ NewAdditional
  \/ NewWithFP
  \/ GetSequential
  \/ GetAdditional
  \/ GetWithFP
  \/ Consume
  \/ Discard

Spec == Init /\ [][Next]_vars

-----------------------------------------------------------------------------
(* The validation loader: indices 0..len-1 of the sequential dataset, in    *)
(* order (shuffle off), each fetched once per epoch                         *)

LoaderFetch ==
  /\ ds.kind = "Sequential"
  /\ loader.pos < DatasetLen(ds)
  /\ LET item == SequentialGetItem(ds, loader.pos)
     IN /\ out' = item
        /\ loader' = [pos |-> loader.pos + 1,
                      produced |-> Append(loader.produced,
                                     [idx_ |-> loader.pos,
                                      recording_id |-> item.recording_id,
                                      segment_id |-> item.segment_id,
                                      offset |-> item.offset])]
  /\ UNCHANGED <<tp0, ds, head, norm, run, ev>>

\* the epoch is over
LoaderDone ==
  /\ ds.kind = "Sequential"
  /\ loader.pos = DatasetLen(ds)
  /\ ds' = DatasetDefaults
  /\ out' = NoItem
  /\ loader' = NoLoader
  /\ UNCHANGED <<tp0, head, norm, run, ev>>

NextLoader ==
  \/ NewSequential
  \/ LoaderFetch
  \/ LoaderDone

SpecLoader == Init /\ [][NextLoader]_vars

-----------------------------------------------------------------------------
(* The mixup datasets, built from their own event table and fetched from   *)

\* the folds the mixup datasets are built for
MixupFolds == (SUBSET {"r1", "r2", "r3"}) \ {{}}

\* the window lengths configured for them
MixupDurations == {Sec(1), Sec(2)}

InitMixup ==
  /\ tp0 = SubSeq(AllMixupEvents, 1, MaxMixupEvents)
  /\ ds = DatasetDefaults
  /\ out = NoItem
  /\ loader = NoLoader
  /\ head = NoHead
  /\ norm = NoNorm
  /\ run = NoRun
  /\ ev = NoEval

NewWaveformMixup ==
  /\ ds.kind = "none"
  /\ \E S \in MixupFolds, duration \in MixupDurations, n_frames \in FrameCounts,
        float_label \in BOOLEAN :
       ds' = WaveformMixupDataset(FoldRows(S), tp0, duration, n_frames, float_label)
  /\ out' = NoItem
  /\ UNCHANGED <<tp0, loader, head, norm, run, ev>>

NewLogmelMixup ==
  /\ ds.kind = "none"
  /\ \E S \in MixupFolds, duration \in MixupDurations, n_frames \in FrameCounts,
        float_label \in BOOLEAN, no_lambda \in BOOLEAN :
       ds' = LogmelMixupDataset(FoldRows(S), tp0, duration, n_frames,
                                float_label, no_lambda)
  /\ out' = NoItem
  /\ UNCHANGED <<tp0, loader, head, norm, run, ev>>

\* __getitem__ of a mixup dataset: the draws in the order the code makes them
GetMixup ==
  /\ ds.kind \in {"WaveformMixup", "LogmelMixup"}
  /\ out.status = "none"
  /\ \E idx \in 0..(DatasetLen(ds) - 1) :
       LET sample == ds.tp[idx + 1]
           candidates == RandomCandidates(sample.t_min, sample.t_max, ds.duration)
           partners == Partners(ds.tp, sample.index)
           GetItem(offset, use_mixup, partner, mixup_offset, lam) ==
             IF ds.kind = "WaveformMixup"
             THEN WaveformMixupGetItem(ds, idx, offset, use_mixup, partner,
                                       mixup_offset, lam)
             ELSE LogmelMixupGetItem(ds, idx, offset, use_mixup, partner,
                                     mixup_offset, lam)
       IN IF candidates = {} THEN out' = Raised("ValueError", idx)
          ELSE \E o \in candidates, use_mixup \in MixupDraws(ds) :
                 IF ~use_mixup
                 THEN out' = GetItem(ClampEnd(o, ds.duration), FALSE, 0, 0, NoLam)
                 ELSE IF partners = {}
                 THEN out' = [NoItem EXCEPT !.status = "hang", !.idx = idx]
                 ELSE \E partner \in partners :
                        LET mixup_sample == ds.tp[partner]
                            mixup_candidates ==
                              MixupCandidates(mixup_sample.t_min, mixup_sample.t_max,
                                              ds.duration)
                        IN IF mixup_candidates = {}
                           THEN out' = RaisedInMixup("ValueError", idx, sample,
                                                     mixup_sample)
                           ELSE \E mo \in mixup_candidates, lam \in LamDraws(ds) :
                                  out' = GetItem(ClampEnd(o, ds.duration), TRUE,
                                                 partner, ClampEnd(mo, ds.duration),
                                                 lam)
  /\ UNCHANGED <<tp0, ds, loader, head, norm, run, ev>>

NextMixup ==
  \/ NewWaveformMixup
  \/ NewLogmelMixup
  \/ GetMixup
  \/ Consume
  \/ Discard

SpecMixup == InitMixup /\ [][NextMixup]_vars

-----------------------------------------------------------------------------
(* The partner's re-draw loop of the three mixup datasets, one draw a step *)

\* the table the loop samples its partner from: self.tp, or self.fp in the
\* false-positive dataset
Pool(self) == IF self.kind = "WithFP" THEN self.fp ELSE self.tp

\* the loop left with whatever row was drawn
LeavesLoopAlways(mixup_sample, index) == TRUE

\* if mixup_sample["index"] != index: break
LeavesLoop(mixup_sample, index) == mixup_sample.index # index

\* if np.random.rand() < self.mixup_prob: the fetch has drawn its offset and
\* reaches while True
EnterLoop ==
  /\ ds.kind \in {"WaveformMixup", "LogmelMixup", "WithFP"}
  /\ out.status = "none"
  /\ TRUE \in MixupDraws(ds)
  /\ \E idx \in 0..(DatasetLen(ds) - 1) :
       LET sample == ds.tp[idx + 1]
       IN /\ RandomCandidates(sample.t_min, sample.t_max, ds.duration) # {}
          /\ out' = [NoItem EXCEPT !.status = "drawing", !.idx = idx,
                                   !.index = sample.index, !.use_mixup = TRUE]
  /\ UNCHANGED <<tp0, ds, loader, head, norm, run, ev>>

\* sample(1) of an empty table raises
DrawEmpty ==
  /\ out.status = "drawing"
  /\ Len(Pool(ds)) = 0
  /\ out' = Raised("ValueError", out.idx)
  /\ UNCHANGED <<tp0, ds, loader, head, norm, run, ev>>

\* a draw whose row passes the test: break
DrawOther ==
  /\ out.status = "drawing"
  /\ \E i \in DOMAIN Pool(ds) :
       LET mixup_sample == Pool(ds)[i]
       IN /\ LeavesLoop(mixup_sample, out.index)
          /\ out' = [out EXCEPT !.status = "left",
                                !.mixup_index = mixup_sample.index,
                                !.mixup_recording_id = mixup_sample.recording_id]
  /\ UNCHANGED <<tp0, ds, loader, head, norm, run, ev>>

\* a draw whose row fails the test: the loop goes round
DrawAgain ==
  /\ out.status = "drawing"
  /\ \E i \in DOMAIN Pool(ds) :
       LET mixup_sample == Pool(ds)[i]
       IN /\ ~LeavesLoop(mixup_sample, out.index)
          /\ out' = [out EXCEPT !.mixup_index = mixup_sample.index,
                                !.mixup_recording_id = mixup_sample.recording_id]
  /\ UNCHANGED <<tp0, ds, loader, head, norm, run, ev>>

\* the fetch goes on with its partner, or its error reaches the caller
TakePartner ==
  /\ out.status \in {"left", "error"}
  /\ out' = NoItem
  /\ UNCHANGED <<tp0, ds, loader, head, norm, run, ev>>

NextRedraw ==
  \/ NewWaveformMixup
  \/ NewLogmelMixup
  \/ NewWithFP
  \/ EnterLoop
  \/ DrawEmpty
  \/ DrawOther
  \/ DrawAgain
  \/ TakePartner
  \/ Discard

\* sample(1) draws every row of the pool with the same probability and the
\* loop draws without pause: a row that would end the loop is drawn in the end
SpecRedraw == Init /\ [][NextRedraw]_vars /\ WF_vars(DrawOther)

-----------------------------------------------------------------------------
(* The head of the model: segment-wise scores to frame-wise scores          *)

\* the raw classification logits a segment can carry (one class, one clip)
Logits == {-2, 0, 3}

\* torch.sigmoid, in thousandths
Sigmoid(x) ==
  CASE x = -2 -> 119
    [] x = 0 -> 500
    [] x = 3 -> 953

\* .utils.interpolate: every segment repeated ratio times along time
Interpolate(x, ratio) ==
  [f \in 1..(Len(x) * ratio) |-> x[((f - 1) \div ratio) + 1]]

\* .utils.pad_framewise_output: the last frame repeated up to frames_num
PadFramewiseOutput(framewise_output, frames_num) ==
  framewise_output \o
    [i \in 1..(frames_num - Len(framewise_output)) |->
       framewise_output[Len(framewise_output)]]

\* self.interpolate_ratio (30) used in place of the computed ratio
InterpolateRatioFixed(frames_num, segments) == 30

\* interpolate_ratio = frames_num // segmentwise_output.size(1)
InterpolateRatio(frames_num, segments) == frames_num \div segments

\* the tail of forward(): both outputs go through the same upsample
Framewise(frames_num, segmentwise_output, segmentwise_logit) ==
  LET interpolate_ratio == InterpolateRatio(frames_num, Len(segmentwise_output))
  IN [status |-> "ok",
      frames_num |-> frames_num,
      segmentwise_output |-> segmentwise_output,
      segmentwise_logit |-> segmentwise_logit,
      framewise_output |->
        PadFramewiseOutput(Interpolate(segmentwise_output, interpolate_ratio),
                           frames_num),
      framewise_logit |->
        PadFramewiseOutput(Interpolate(segmentwise_logit, interpolate_ratio),
                           frames_num)]

\* the attention weights of one class are counted in units of 1/AttOne:
\* the softmax over the segments makes them sum to one
AttOne == 2

\* the weights norm_att can take over the segments: non-negative, summing to one
AttWeights(segments) ==
  {w \in [1..segments -> 0..AttOne] : SeqSum(w) = AttOne}

\* AttBlockV2.forward: (sum of norm_att * sigmoid(cla), norm_att, sigmoid(cla));
\* clipwise_output is in units of 1/(AttOne * One)
AttBlockV2(norm_att, cla) ==
  LET segmentwise_output == [t \in 1..Len(cla) |-> Sigmoid(cla[t])]
  IN [clipwise_output |->
        SeqSum([t \in 1..Len(cla) |-> norm_att[t] * segmentwise_output[t]]),
      norm_att |-> norm_att,
      segmentwise_output |-> segmentwise_output]

\* the sum of the raw logits, the weights left out
AttLogitUnweighted(norm_att, cla) == AttOne * SeqSum(cla)

\* logit = torch.sum(norm_att * self.att_block.cla(x), dim=2), in units of
\* 1/AttOne
AttLogit(norm_att, cla) ==
  SeqSum([t \in 1..Len(cla) |-> norm_att[t] * cla[t]])

\* TimmEfficientNetSED.forward / EfficientNetSED.forward: the attention block
\* returns the sigmoid of cla(x) as segmentwise_output
ForwardSED ==
  /\ head.status = "none"
  /\ \E frames_num \in 1..MaxFramesNum :
       \E segments \in 1..Min(frames_num, MaxSegments) :
         \E cla \in [1..segments -> Logits] :
           \E norm_att \in AttWeights(segments) :
             LET att == AttBlockV2(norm_att, cla)
                 logit == AttLogit(norm_att, cla)
                 tail == Framewise(frames_num, att.segmentwise_output, cla)
             IN head' = [status |-> "SED",
                         frames_num |-> frames_num,
                         segmentwise_output |-> tail.segmentwise_output,
                         segmentwise_logit |-> tail.segmentwise_logit,
                         framewise_output |-> tail.framewise_output,
                         framewise_logit |-> tail.framewise_logit,
                         norm_att |-> att.norm_att,
                         clipwise_output |-> att.clipwise_output,
                         logit |-> logit]
  /\ UNCHANGED <<tp0, ds, out, loader, norm, run, ev>>

\* TimmEfficientNetSEDMax.forward: fc_audioset gives the logits
ForwardSEDMax ==
  /\ head.status = "none"
  /\ \E frames_num \in 1..MaxFramesNum :
       \E segments \in 1..Min(frames_num, MaxSegments) :
         \E segmentwise_logit \in [1..segments -> Logits] :
           head' = [Framewise(frames_num,
                              [t \in 1..segments |-> Sigmoid(segmentwise_logit[t])],
                              segmentwise_logit)
                      EXCEPT !.status = "SEDMax"]
  /\ UNCHANGED <<tp0, ds, out, loader, norm, run, ev>>

\* the caller takes the output dictionary
TakeOutput ==
  /\ head.status # "none"
  /\ head' = NoHead
  /\ UNCHANGED <<tp0, ds, out, loader, norm, run, ev>>

NextHead ==
  \/ ForwardSED
  \/ ForwardSEDMax
  \/ TakeOutput

SpecHead == Init /\ [][NextHead]_vars

-----------------------------------------------------------------------------
(* normalize_melspec applied to every array it can be given *)

\* the shapes (n_mels, frames) of an array of at most MaxPixels entries
Shapes == {sh \in (1..MaxPixels) \X (1..MaxPixels) : sh[1] * sh[2] <= MaxPixels}

\* the values of an entry
Levels == (-1)..MaxLevel

Normalize ==
  /\ norm.status = "none"
  /\ \E shape \in Shapes :
       \E data \in [1..(shape[1] * shape[2]) -> Levels] :
          LET X == [shape |-> shape, data |-> data]
          IN norm' = [status |-> "done", X |-> X, V |-> NormalizeMelspec(X)]
  /\ UNCHANGED <<tp0, ds, out, loader, head, run, ev>>

\* the channel is stacked into the image
TakeChannel ==
  /\ norm.status = "done"
  /\ norm' = NoNorm
  /\ UNCHANGED <<tp0, ds, out, loader, head, run, ev>>

NextNorm ==
  \/ Normalize
  \/ TakeChannel

SpecNorm == Init /\ [][NextNorm]_vars

-----------------------------------------------------------------------------
(* The end of a run *)

\* the recordings of the test set, in sort order
TestIds == <<"t1", "t2", "t3">>

\* the tables the checks compare: the ensembled predictions of the folds,
\* grouped by recording_id, and the sample submission
Ensemble ==
  /\ run.pc = "start"
  /\ \E n \in 0..MaxRows, m \in 0..MaxRows :
       \E rows \in [1..n -> SeqRange(TestIds)],
          sample \in [1..m -> SeqRange(TestIds)],
          columns \in {N_CLASSES + 1, N_CLASSES + 2} :
          run' = [run EXCEPT
                    !.pc = "ensembled",
                    !.prediction = [recording_id |-> GroupKeys(rows, TestIds),
                                    columns |-> N_CLASSES + 1],
                    !.submission = [recording_id |-> sample, columns |-> columns]]
  /\ UNCHANGED <<tp0, ds, out, loader, head, norm, ev>>

WriteOof ==
  /\ run.pc = "ensembled"
  /\ run' = [run EXCEPT !.pc = "assert_length", !.files = @ \cup OofFiles]
  /\ UNCHANGED <<tp0, ds, out, loader, head, norm, ev>>

\* assert cond, message: the run goes on, or ends with AssertionError
AssertStep(pc, cond, next) ==
  /\ run.pc = pc
  /\ run' = [run EXCEPT !.pc = IF cond THEN next ELSE "AssertionError"]
  /\ UNCHANGED <<tp0, ds, out, loader, head, norm, ev>>

AssertLength ==
  AssertStep("assert_length", CheckLength(run.prediction, run.submission),
             "assert_columns")

AssertColumns ==
  AssertStep("assert_columns", CheckColumns(run.prediction, run.submission),
             "assert_unknown")

AssertNoUnknown ==
  AssertStep("assert_unknown", CheckNoUnknown(run.prediction, run.submission),
             "assert_missing")

AssertNoMissing ==
  AssertStep("assert_missing", CheckNoMissing(run.prediction, run.submission),
             "write_submission")

WriteSubmission ==
  /\ run.pc = "write_submission"
  /\ run' = [run EXCEPT !.pc = "write_results", !.files = @ \cup {"submission.csv"}]
  /\ UNCHANGED <<tp0, ds, out, loader, head, norm, ev>>

WriteResults ==
  /\ run.pc = "write_results"
  /\ run' = [run EXCEPT !.pc = "done", !.files = @ \cup {"results.json"}]
  /\ UNCHANGED <<tp0, ds, out, loader, head, norm, ev>>

NextSubmit ==
  \/ Ensemble
  \/ WriteOof
  \/ AssertLength
  \/ AssertColumns
  \/ AssertNoUnknown
  \/ AssertNoMissing
  \/ WriteSubmission
  \/ WriteResults

SpecSubmit == Init /\ [][NextSubmit]_vars

-----------------------------------------------------------------------------
(* An evaluation or inference pass: batches collected, then grouped *)

\* the recordings the loader's windows come from, in sort order
EvalIds == <<"a", "b">>

\* clipwise_output of a window: one row of scores, one column per class
Scores == {<<100, 500>>, <<500, 100>>, <<300, 300>>}

\* the weak target of a window
WeakTargets == {<<0, One>>, <<One, 0>>}

\* the sizes a batch can have
BatchSizes == {1, 2}

\* eval_one_epoch or get_inference is entered
StartPass ==
  /\ ev.pc = "start"
  /\ \E mode \in {"valid", "inference"} :
       ev' = [ev EXCEPT !.pc = "loop", !.mode = mode]
  /\ UNCHANGED <<tp0, ds, out, loader, head, norm, run>>

\* one turn of the loop over the loader: whatever windows the batch holds
Batch ==
  /\ ev.pc = "loop"
  /\ \E size \in BatchSizes :
       /\ Len(ev.recording_ids) + size <= MaxWindows
       /\ \E ids \in [1..size -> SeqRange(EvalIds)],
             clipwise_output \in [1..size -> Scores],
             target \in [1..size -> WeakTargets] :
            ev' = [ev EXCEPT
                     !.recording_ids = @ \o ids,
                     !.preds = Append(@, clipwise_output),
                     !.targs = IF ev.mode = "valid" THEN Append(@, target) ELSE @]
  /\ UNCHANGED <<tp0, ds, out, loader, head, norm, run>>

\* the loader is exhausted: concatenate, group by recording_id, take the max
Aggregate ==
  /\ ev.pc = "loop"
  /\ ev.preds # <<>>
  /\ LET y_pred == Concatenate(ev.preds)
         y_true == Concatenate(ev.targs)
     IN ev' = [ev EXCEPT
                 !.pc = "done",
                 !.oof_pred_df = GroupbyMax(ev.recording_ids, y_pred, EvalIds),
                 !.oof_targ_df = IF ev.mode = "valid"
                                 THEN GroupbyMax(ev.recording_ids, y_true, EvalIds)
                                 ELSE <<>>]
  /\ UNCHANGED <<tp0, ds, out, loader, head, norm, run>>

\* the caller takes the tables
TakeTables ==
  /\ ev.pc = "done"
  /\ ev' = NoEval
  /\ UNCHANGED <<tp0, ds, out, loader, head, norm, run>>

NextEval ==
  \/ StartPass
  \/ Batch
  \/ Aggregate
  \/ TakeTables

SpecEval == Init /\ [][NextEval]_vars

-----------------------------------------------------------------------------
(* Properties *)

\* the last fetch returned an example
Fetched == out.status = "ok"

\* the row of self.tp the last fetch of a training dataset was asked for
Sample == ds.tp[out.idx + 1]

\* the dataset draws its offset at random (np.random.choice)
RandomMode ==
  \/ ds.kind = "WithFP"
  \/ ds.kind = "Additional" /\ ~ds.centering

\* the labels are the plain 1.0 / 0.0 ones: no mixup weights, no override
PlainLabels == ds.kind \in {"Sequential", "WithFP"}

\* C1: in random mode every offset that is returned, from the short-event
\* and the long-event branch alike, lies in [0, clip_duration - duration]
C1_RandomOffsetInRange ==
  (Fetched /\ RandomMode) =>
     /\ 0 <= out.offset
     /\ out.offset <= CLIP_DURATION - ds.duration

\* C1 witness: the clamp acted on an event near the recording's end
C1_Witness ==
  /\ Fetched /\ RandomMode
  /\ out.offset = CLIP_DURATION - ds.duration
  /\ Sample.t_min - Step > CLIP_DURATION - ds.duration
  /\ Sample.t_max - ds.duration < CLIP_DURATION - ds.duration

\* C2: without mixup and override, a nonzero strong entry of a class has a
\* positive weak entry of the same class, for species and songtype tensors
C2_StrongImpliesWeak ==
  (Fetched /\ PlainLabels) =>
     /\ \A f \in DOMAIN out.strong : \A c \in DOMAIN out.strong[f] :
          out.strong[f][c] # 0 => out.weak[c] > 0
     /\ \A f \in DOMAIN out.strong_songtype : \A k \in DOMAIN out.strong_songtype[f] :
          out.strong_songtype[f][k] # 0 => out.weak_songtype[k] > 0

\* C2 witness: two species have strong frames in one window
C2_Witness ==
  /\ Fetched /\ PlainLabels
  /\ \E f, g \in DOMAIN out.strong : \E c, d \in DOMAIN out.weak :
       c # d /\ out.strong[f][c] # 0 /\ out.strong[g][d] # 0

\* C3: both framewise outputs have frames_num frames; with r = frames_num // T,
\* frame f < T*r carries segment f // r and every later frame the last segment
C3_Upsample ==
  head.status # "none" =>
     LET T == Len(head.segmentwise_output)
         r == head.frames_num \div T
         Expected(seg, f) == IF f < T * r THEN seg[(f \div r) + 1] ELSE seg[T]
     IN /\ Len(head.framewise_output) = head.frames_num
        /\ Len(head.framewise_logit) = head.frames_num
        /\ \A f \in 0..(head.frames_num - 1) :
             /\ head.framewise_output[f + 1] = Expected(head.segmentwise_output, f)
             /\ head.framewise_logit[f + 1] = Expected(head.segmentwise_logit, f)

\* C3 witness: 5 segments, 17 frames, the last two frames padded with a
\* value the segment before the last does not carry
C3_Witness ==
  /\ head.status # "none"
  /\ Len(head.segmentwise_logit) = 5
  /\ head.frames_num = 17
  /\ head.segmentwise_logit[4] # head.segmentwise_logit[5]
  /\ head.framewise_logit[17] = head.segmentwise_logit[5]

\* C4: in centered mode the offset is t_min - (duration - call_duration)/2
\* clamped to [0, clip_duration - duration]; unclamped, the window's midpoint
\* is the event's; the event 12.0..12.4 with duration 10 gets offset 7.2
C4_Centered ==
  (Fetched /\ ds.kind = "Additional" /\ ds.centering) =>
     LET lo == 0
         hi == 2 * (CLIP_DURATION - ds.duration)
         twice == 2 * Sample.t_min - (ds.duration - (Sample.t_max - Sample.t_min))
         clamped == IF twice < lo THEN lo ELSE IF twice > hi THEN hi ELSE twice
     IN /\ 2 * out.offset = clamped
        /\ (lo <= twice /\ twice <= hi) =>
              2 * out.offset + ds.duration = Sample.t_min + Sample.t_max
        /\ (Sample.t_min = Ds(120) /\ Sample.t_max = Ds(124) /\ ds.duration = Sec(10))
              => out.offset = Ds(72)

\* C4 witness: the event 12.0..12.4 centered in a 10 s window at 7.2
C4_Witness ==
  /\ Fetched /\ ds.kind = "Additional" /\ ds.centering
  /\ Sample.t_min = Ds(120) /\ Sample.t_max = Ds(124) /\ ds.duration = Sec(10)
  /\ out.offset = Ds(72)

\* the chunks of one recording, as the spec counts them
Chunks == 0..((CLIP_DURATION \div ds.duration) - 1)

\* the epoch of the validation loader is complete
EpochDone == ds.kind = "Sequential" /\ loader.pos = DatasetLen(ds)

\* C5: enumerating all indices yields every chunk of every recording of the
\* dataset exactly once
C5_ExhaustiveCoverage ==
  EpochDone =>
     \A r \in SeqRange(ds.df) : \A k \in Chunks :
        Cardinality({i \in DOMAIN loader.produced :
                       /\ loader.produced[i].recording_id = r
                       /\ loader.produced[i].segment_id = k}) = 1

\* the windows the loader produced for recording r
WindowsOf(r) ==
  {loader.produced[i].offset :
     i \in {j \in DOMAIN loader.produced : loader.produced[j].recording_id = r}}

\* C6: the offset of index idx_ is (idx_ mod (clip_duration // duration)) *
\* duration; the windows of one recording do not overlap each other, lie in
\* [0, clip_duration] and cover [0, (clip_duration // duration) * duration)
C6_SequentialWindows ==
  ds.kind = "Sequential" =>
     LET n == CLIP_DURATION \div ds.duration
         d == ds.duration
     IN /\ \A i \in DOMAIN loader.produced :
             LET p == loader.produced[i]
             IN /\ p.offset = (p.idx_ % n) * d
                /\ 0 <= p.offset /\ p.offset + d <= CLIP_DURATION
        /\ \A r \in SeqRange(ds.df) : \A a, b \in WindowsOf(r) :
             a # b => (a + d <= b \/ b + d <= a)
        /\ EpochDone =>
             \A r \in SeqRange(ds.df) :
                WindowsOf(r) # {} =>
                   /\ 0 \in WindowsOf(r)
                   /\ \A a \in WindowsOf(r) :
                        a + d < n * d => a + d \in WindowsOf(r)
                   /\ \E a \in WindowsOf(r) : a + d = n * d

\* C6 witness: an epoch over 7 s windows, which do not divide the recording
C6_Witness ==
  /\ EpochDone
  /\ ds.duration = Sec(7)
  /\ Len(loader.produced) >= 2 * (CLIP_DURATION \div ds.duration)
  /\ \E i \in DOMAIN loader.produced : loader.produced[i].offset = Sec(49)

\* an event of the window's recording overlaps the window (half-open test)
Overlaps(e) ==
  /\ e.recording_id = out.recording_id
  /\ e.t_min < out.offset + ds.duration
  /\ e.t_max > out.offset

\* the rows of self.tp that overlap the window
Overlapping == {i \in DOMAIN ds.tp : Overlaps(ds.tp[i])}

\* C7: without mixup and override weak[c] is 1.0 exactly when an event of
\* the window's recording with species c has t_min < offset + duration and
\* t_max > offset, and 0.0 otherwise; touching an edge is no overlap
C7_WeakIffOverlap ==
  (Fetched /\ PlainLabels) =>
     \A c \in 0..(N_CLASSES - 1) :
        out.weak[c] = IF \E i \in Overlapping : ds.tp[i].species_id = c
                      THEN One ELSE 0

\* C7 witness: an event ends where the window starts, another starts where
\* the window ends, and neither species is set
C7_Witness ==
  /\ Fetched /\ PlainLabels
  /\ \E i, j \in DOMAIN ds.tp :
       /\ ds.tp[i].recording_id = out.recording_id
       /\ ds.tp[j].recording_id = out.recording_id
       /\ ds.tp[i].t_max = out.offset
       /\ ds.tp[j].t_min = out.offset + ds.duration
       /\ out.weak[ds.tp[i].species_id] = 0
       /\ out.weak[ds.tp[j].species_id] = 0

\* (t - offset) / seconds_per_frame is Scaled(t) / duration
Scaled(t) == (t - out.offset) * ds.n_frames

\* C8 (as claimed): the frame indices of every overlapping event are the
\* floors of (t_min - offset)/seconds_per_frame and (t_max - offset)/seconds_per_frame
C8_FloorIndices ==
  Fetched =>
     \A i \in DOMAIN out.events :
        /\ out.spans[i].start_index * ds.duration <= Scaled(out.events[i].t_min)
        /\ Scaled(out.events[i].t_min) < (out.spans[i].start_index + 1) * ds.duration
        /\ out.spans[i].end_index * ds.duration <= Scaled(out.events[i].t_max)
        /\ Scaled(out.events[i].t_max) < (out.spans[i].end_index + 1) * ds.duration

\* C8 (amended): the frame indices are the quotients truncated toward zero:
\* the floor for t >= offset (always so for t_max), the ceiling for t_min < offset
C8_TruncatedIndices ==
  Fetched =>
     \A i \in DOMAIN out.events :
        LET e == out.events[i]
            s == out.spans[i].start_index
            t == out.spans[i].end_index
        IN /\ e.t_min >= out.offset =>
                 (s * ds.duration <= Scaled(e.t_min)
                    /\ Scaled(e.t_min) < (s + 1) * ds.duration)
           /\ e.t_min < out.offset =>
                 ((s - 1) * ds.duration < Scaled(e.t_min)
                    /\ Scaled(e.t_min) <= s * ds.duration)
           /\ t * ds.duration <= Scaled(e.t_max)
           /\ Scaled(e.t_max) < (t + 1) * ds.duration

\* C8 witness: an overlapping event starts before the window, less than a
\* frame before it, and gets start_index 0 and frames written
C8_Witness ==
  /\ Fetched
  /\ \E i \in DOMAIN out.events :
       /\ out.events[i].t_min < out.offset
       /\ Scaled(out.events[i].t_min) % ds.duration # 0
       /\ out.spans[i].start_index = 0
       /\ out.spans[i].end_index > 0
       /\ out.strong[0][out.events[i].species_id] = One

\* the strong tensors after the writes of the first k overlapping rows
StrongAfter(k) ==
  WriteStrong(Zeros2(ds.n_frames, N_CLASSES), SubSeq(out.events, 1, k),
              out.offset, ds.duration, ds.n_frames, One, 1)

SongtypeAfter(k) ==
  WriteStrongSongtype(Zeros2(ds.n_frames, N_CLASSES + 2), SubSeq(out.events, 1, k),
                      out.offset, ds.duration, ds.n_frames, One, 1)

\* the rows in which two tensors differ
Differing(a, b) == {f \in DOMAIN a : a[f] # b[f]}

\* C9 (as claimed): a write with a negative start_index changes no entry of
\* strong and strong_songtype
C9_NegativeStartNoOp ==
  Fetched =>
     \A i \in DOMAIN out.events :
        out.spans[i].start_index < 0 =>
           /\ StrongAfter(i) = StrongAfter(i - 1)
           /\ SongtypeAfter(i) = SongtypeAfter(i - 1)

\* C9 (amended): a write with a negative start_index changes no entry when
\* the event is no longer than the window; for a longer event it changes
\* rows only in [max(start + n_frames, 0), min(end, n_frames)), where the
\* start counts from the end of the axis, and sets every row of that range
C9_NegativeStartWraps ==
  Fetched =>
     \A i \in DOMAIN out.events :
        LET e == out.events[i]
            s == out.spans[i].start_index
            t == out.spans[i].end_index
            n == ds.n_frames
            wrapped == {f \in 0..(n - 1) : Max(s + n, 0) <= f /\ f < Min(t, n)}
        IN s < 0 =>
             /\ e.t_max - e.t_min <= ds.duration =>
                   /\ StrongAfter(i) = StrongAfter(i - 1)
                   /\ SongtypeAfter(i) = SongtypeAfter(i - 1)
             /\ Differing(StrongAfter(i), StrongAfter(i - 1)) \subseteq wrapped
             /\ Differing(SongtypeAfter(i), SongtypeAfter(i - 1)) \subseteq wrapped
             /\ \A f \in wrapped :
                   /\ out.strong[f][e.species_id] = One
                   /\ out.strong_songtype[f][CLASS_MAP[species_id_song_id(e)]] = One

\* C9 witness: an event no longer than the window starts more than a frame
\* before it and ends more than a frame into it, and no frame is written
C9_Witness ==
  /\ Fetched
  /\ \E i \in DOMAIN out.events :
       /\ out.events[i].t_max - out.events[i].t_min <= ds.duration
       /\ out.spans[i].start_index < 0
       /\ out.spans[i].end_index > 0
       /\ \A f \in DOMAIN out.strong : out.strong[f][out.events[i].species_id] = 0

\* the rows strong[start:end] names for the i-th overlapping row
WrittenRows(i) ==
  LET s == out.spans[i].start_index
      t == out.spans[i].end_index
      n == ds.n_frames
      from == IF s < 0 THEN Max(s + n, 0) ELSE Min(s, n)
      to == IF t < 0 THEN Max(t + n, 0) ELSE Min(t, n)
  IN {f \in 0..(n - 1) : from <= f /\ f < to}

\* C10: the songtype tensors have width N_CLASSES + 2; weak_songtype is set
\* at CLASS_MAP[k] iff an overlapping event has joint key k; every event's
\* write reaches the same frames in strong_songtype at CLASS_MAP[key] as in
\* strong at its species, and no other entry is set
C10_SongtypeVariants ==
  (Fetched /\ ds.kind \in {"Sequential", "Additional", "WithFP"}) =>
     /\ DOMAIN out.weak_songtype = 0..(N_CLASSES + 1)
     /\ DOMAIN out.strong_songtype = 0..(ds.n_frames - 1)
     /\ \A f \in DOMAIN out.strong_songtype :
          DOMAIN out.strong_songtype[f] = 0..(N_CLASSES + 1)
     /\ \A k \in Keys :
          out.weak_songtype[CLASS_MAP[k]] =
             IF \E i \in Overlapping : species_id_song_id(ds.tp[i]) = k
             THEN One ELSE 0
     /\ \A k \in Keys : \A f \in 0..(ds.n_frames - 1) :
          out.strong_songtype[f][CLASS_MAP[k]] =
             IF \E i \in DOMAIN out.events :
                  species_id_song_id(out.events[i]) = k /\ f \in WrittenRows(i)
             THEN One ELSE 0
     /\ \A c \in 0..(N_CLASSES - 1) : \A f \in 0..(ds.n_frames - 1) :
          out.strong[f][c] =
             IF \E i \in DOMAIN out.events :
                  out.events[i].species_id = c /\ f \in WrittenRows(i)
             THEN One ELSE 0
     /\ {CLASS_MAP[k] : k \in Keys} = 0..(N_CLASSES + 1)

\* C10 witness: an event of a species with two songtypes has frames written,
\* in the column of its own key and not in that of the species' other key
C10_Witness ==
  /\ Fetched /\ ds.kind \in {"Sequential", "Additional", "WithFP"}
  /\ \E i \in DOMAIN out.events : \E f \in WrittenRows(i) :
       /\ species_id_song_id(out.events[i]) = <<17, 4>>
       /\ out.strong_songtype[f][CLASS_MAP[<<17, 4>>]] = One
       /\ out.strong_songtype[f][CLASS_MAP[<<17, 1>>]] = 0
       /\ out.strong[f][17] = One
       /\ out.weak_songtype[CLASS_MAP[<<17, 4>>]] = One

\* a row of the auxiliary file lists species c for the window's recording
Listed(c) ==
  \E i \in DOMAIN ds.additional_labels :
     /\ ds.additional_labels[i].filename = out.recording_id
     /\ ds.additional_labels[i].species = c

\* C11: with an auxiliary file configured, weak[c] of every species listed
\* for the recording is the confidence value, also where an overlapping event
\* had set 1.0; unlisted species keep 1.0 / 0.0; strong, weak_songtype and
\* strong_songtype are those of the events alone
C11_Override ==
  (Fetched /\ ds.kind = "Additional" /\ ds.has_additional_labels) =>
     /\ \A c \in 0..(N_CLASSES - 1) :
          out.weak[c] =
             IF Listed(c) THEN ds.additional_label_value
             ELSE IF \E i \in Overlapping : ds.tp[i].species_id = c
                  THEN One ELSE 0
     /\ out.strong = StrongAfter(Len(out.events))
     /\ out.strong_songtype = SongtypeAfter(Len(out.events))
     /\ \A f \in DOMAIN out.strong : \A c \in DOMAIN out.strong[f] :
          out.strong[f][c] \in {0, One}
     /\ \A f \in DOMAIN out.strong_songtype : \A k \in DOMAIN out.strong_songtype[f] :
          out.strong_songtype[f][k] \in {0, One}
     /\ \A k \in Keys :
          out.weak_songtype[CLASS_MAP[k]] =
             IF \E i \in Overlapping : species_id_song_id(ds.tp[i]) = k
             THEN One ELSE 0

\* C11 witness: a listed species with an overlapping event and strong frames,
\* a listed species without an event, and an unlisted species at 1.0
C11_Witness ==
  /\ Fetched /\ ds.kind = "Additional" /\ ds.has_additional_labels
  /\ \E c, d, u \in 0..(N_CLASSES - 1) :
       /\ Listed(c) /\ (\E i \in Overlapping : ds.tp[i].species_id = c)
       /\ out.weak[c] = ds.additional_label_value
       /\ \E f \in DOMAIN out.strong : out.strong[f][c] = One
       /\ Listed(d) /\ ~(\E i \in Overlapping : ds.tp[i].species_id = d)
       /\ out.weak[d] = ds.additional_label_value
       /\ ~Listed(u) /\ out.weak[u] = One

\* C12 (as claimed): without an auxiliary file, a fetch that drew an offset
\* completes without error and returns the weak label of the events alone
C12_OptionalFile ==
  (/\ ds.kind = "Additional" /\ ~ds.has_additional_labels
   /\ out.status # "none" /\ out.error # "ValueError") =>
     /\ Fetched
     /\ \A c \in 0..(N_CLASSES - 1) :
          out.weak[c] = IF \E i \in Overlapping : ds.tp[i].species_id = c
                        THEN One ELSE 0

\* the last fetch came from a mixup dataset
FromMixup == ds.kind \in {"WaveformMixup", "LogmelMixup"}

\* the last fetch returned an example blended with a partner
Mixed == FromMixup /\ Fetched /\ out.use_mixup

\* C13: whenever mixup is applied in the waveform or spectrogram mixup
\* dataset, the partner is a row of the event pool whose index differs from
\* the primary event's index
C13_PartnerDiffers ==
  Mixed =>
     /\ out.mixup_index # out.index
     /\ \E i \in DOMAIN ds.tp :
          /\ ds.tp[i].index = out.mixup_index
          /\ ds.tp[i].recording_id = out.mixup_recording_id

\* C13 witness: the partner is another event of the primary's own recording
C13_Witness ==
  /\ Mixed
  /\ out.mixup_recording_id = out.recording_id
  /\ out.mixup_index # out.index

\* float labels are in effect for the last fetch: lam was drawn and is written
FloatLabels == Mixed /\ ds.float_label /\ ~ds.no_lambda

\* species c belongs to an event overlapping the primary / secondary window
InPrimary(c) ==
  \E i \in DOMAIN ds.tp :
     /\ ds.tp[i].species_id = c
     /\ ds.tp[i].recording_id = out.recording_id
     /\ ds.tp[i].t_min < out.offset + ds.duration
     /\ ds.tp[i].t_max > out.offset

InSecondary(c) ==
  \E i \in DOMAIN ds.tp :
     /\ ds.tp[i].species_id = c
     /\ ds.tp[i].recording_id = out.mixup_recording_id
     /\ ds.tp[i].t_min < out.mixup_offset + ds.duration
     /\ ds.tp[i].t_max > out.mixup_offset

\* the rows a[start:end] of an axis of n_frames rows
RowsOf(span) ==
  LET n == ds.n_frames
      from == IF span.start_index < 0 THEN Max(span.start_index + n, 0)
              ELSE Min(span.start_index, n)
      to == IF span.end_index < 0 THEN Max(span.end_index + n, 0)
            ELSE Min(span.end_index, n)
  IN {f \in 0..(n - 1) : from <= f /\ f < to}

\* the frames the primary's / the secondary's events of species c write
PrimaryRows(c) ==
  UNION {RowsOf(out.spans[i]) :
           i \in {j \in DOMAIN out.events : out.events[j].species_id = c}}

SecondaryRows(c) ==
  UNION {RowsOf(out.mixup_spans[i]) :
           i \in {j \in DOMAIN out.mixup_events : out.mixup_events[j].species_id = c}}

\* C14: under float labels a species overlapping only the primary window has
\* weak = lam and a species overlapping only the secondary window weak =
\* 1 - lam; the frames written for them carry the same value, every other
\* frame 0; the two weights sum to 1
C14_LabelSplit ==
  FloatLabels =>
     /\ out.lam \in Lams
     /\ \A c \in 0..(N_CLASSES - 1) :
          /\ (InPrimary(c) /\ ~InSecondary(c)) =>
                /\ out.weak[c] = out.lam
                /\ \A f \in 0..(ds.n_frames - 1) :
                     out.strong[f][c] = IF f \in PrimaryRows(c) THEN out.lam ELSE 0
          /\ (InSecondary(c) /\ ~InPrimary(c)) =>
                /\ out.weak[c] = One - out.lam
                /\ \A f \in 0..(ds.n_frames - 1) :
                     out.strong[f][c] =
                        IF f \in SecondaryRows(c) THEN One - out.lam ELSE 0
     /\ \A c, d \in 0..(N_CLASSES - 1) :
          (InPrimary(c) /\ ~InSecondary(c) /\ InSecondary(d) /\ ~InPrimary(d)) =>
             out.weak[c] + out.weak[d] = One

\* C14 witness: a species only in the primary window and another only in the
\* secondary window, both with frames written, the two weights unequal
C14_Witness ==
  /\ FloatLabels
  /\ out.lam # One - out.lam
  /\ \E c, d \in 0..(N_CLASSES - 1) :
       /\ InPrimary(c) /\ ~InSecondary(c) /\ PrimaryRows(c) # {}
       /\ InSecondary(d) /\ ~InPrimary(d) /\ SecondaryRows(d) # {}
       /\ out.weak[c] = out.lam /\ out.weak[d] = One - out.lam

\* C15 (as claimed): in the spectrogram variant under float labels the
\* secondary's contribution is added to the primary's: weak[c] is lam if c
\* overlaps the primary window plus 1 - lam if it overlaps the secondary
\* window, and every frame carries the sum of what the two windows' events
\* write there
C15_Additive ==
  (FloatLabels /\ ds.kind = "LogmelMixup") =>
     \A c \in 0..(N_CLASSES - 1) :
        /\ out.weak[c] = (IF InPrimary(c) THEN out.lam ELSE 0)
                         + (IF InSecondary(c) THEN One - out.lam ELSE 0)
        /\ \A f \in 0..(ds.n_frames - 1) :
             out.strong[f][c] = (IF f \in PrimaryRows(c) THEN out.lam ELSE 0)
                                + (IF f \in SecondaryRows(c) THEN One - out.lam ELSE 0)

\* the row of the pool the re-draw loop left with
Partner == ds.tp[CHOOSE i \in DOMAIN ds.tp : ds.tp[i].index = out.mixup_index]

\* C16 (as claimed): the partner's offset is drawn by the policy of the
\* primary window, long-event interval included, so every partner whose
\* interval under that policy is not empty yields an offset from it
C16_SamePolicy ==
  (FromMixup /\ out.use_mixup /\ out.status \in {"ok", "error"}) =>
     LET candidates == RandomCandidates(Partner.t_min, Partner.t_max, ds.duration)
     IN candidates # {} =>
          /\ Fetched
          /\ \E o \in candidates :
               out.mixup_offset = Min(CLIP_DURATION - ds.duration, o)

\* the dataset of the last fetch draws its offset at random
RandomModeAny == RandomMode \/ FromMixup

\* the interval [max(t_max - duration, 0), t_min) of the row fetched has no
\* point, and it is the interval the dataset draws from for that row
ShortIntervalEmpty ==
  /\ Max(Sample.t_max - ds.duration, 0) >= Sample.t_min
  /\ ds.kind = "Additional" \/ Sample.t_max - Sample.t_min <= ds.duration

\* C17: in random mode a fetch of an event whose candidate interval
\* [max(t_max - duration, 0), t_min) is empty ends in an error: no offset,
\* no example, no fallback offset
C17_EmptyIntervalRaises ==
  (RandomModeAny /\ out.status # "none" /\ ShortIntervalEmpty) =>
     /\ out.status = "error"
     /\ out.error = "ValueError"
     /\ out.weak = <<>> /\ out.strong = <<>>
     /\ out.recording_id = ""

\* C17 witness: the fetch of an event that starts with the recording raised
C17_Witness ==
  /\ RandomModeAny /\ out.status = "error" /\ out.error = "ValueError"
  /\ Sample.t_min = 0
  /\ Sample.t_max < ds.duration

\* the entries of the array given are all equal
Constant == \A i, j \in DOMAIN norm.X.data : norm.X.data[i] = norm.X.data[j]

\* max - min of the standardised array is at most eps: on the grid,
\* EpsInv * (max - min - 1) <= std, that is, an integer r lies between
\* Len * EpsInv * (max - min - 1) and Len * std
Collapsed ==
  LET data == norm.X.data
      n == Len(data)
      variance == n * SeqSum([i \in DOMAIN data |-> data[i] * data[i]])
                  - SeqSum(data) * SeqSum(data)
      range == CHOOSE d \in 0..(MaxLevel + 1) :
                 /\ \E i, j \in DOMAIN data : data[i] - data[j] = d
                 /\ \A i, j \in DOMAIN data : data[i] - data[j] <= d
  IN \E r \in 0..variance :
        /\ r * r <= variance
        /\ EpsInv * (range - 1) * n <= r

\* C18: normalize_melspec returns an array of the shape it was given; on a
\* constant array, and whenever max - min of the standardised array is at
\* most 1e-6, every entry is 0 and nothing was divided by the range; on every
\* other array every entry is an integer in [0, 255]
C18_Normalize ==
  norm.status = "done" =>
     /\ norm.V.shape = norm.X.shape
     /\ DOMAIN norm.V.data = DOMAIN norm.X.data
     /\ (Constant \/ Collapsed) =>
           /\ \A i \in DOMAIN norm.V.data : norm.V.data[i] = 0
           /\ ~norm.V.divided
     /\ ~(Constant \/ Collapsed) =>
           \A i \in DOMAIN norm.V.data : norm.V.data[i] \in 0..255

\* C18 witness: an array that is not constant but whose standardised range
\* is within eps comes back all zero
C18_Witness ==
  /\ norm.status = "done"
  /\ ~Constant /\ Collapsed
  /\ Len(norm.X.data) > 1
  /\ \A i \in DOMAIN norm.V.data : norm.V.data[i] = 0

\* the four checks of the prediction table against the sample submission
AllChecksHold ==
  /\ Len(run.prediction.recording_id) = Len(run.submission.recording_id)
  /\ run.prediction.columns = run.submission.columns
  /\ \A i \in DOMAIN run.prediction.recording_id :
        \E j \in DOMAIN run.submission.recording_id :
           run.prediction.recording_id[i] = run.submission.recording_id[j]
  /\ \A j \in DOMAIN run.submission.recording_id :
        \E i \in DOMAIN run.prediction.recording_id :
           run.prediction.recording_id[i] = run.submission.recording_id[j]

\* the run is past the four asserts
PastAsserts == run.pc \in {"write_submission", "write_results", "done"}

\* C19: submission.csv is written only after all four checks have passed;
\* when a check fails the run ends there, with neither submission.csv nor
\* results.json written
C19_SubmissionAfterChecks ==
  /\ "submission.csv" \in run.files => (AllChecksHold /\ PastAsserts)
  /\ PastAsserts => AllChecksHold
  /\ run.pc = "AssertionError" =>
        /\ ~AllChecksHold
        /\ "submission.csv" \notin run.files
        /\ "results.json" \notin run.files
  /\ "results.json" \in run.files => "submission.csv" \in run.files

\* C19 witness: the run ended at the third check (an unknown recording_id in
\* a prediction of the right length and width), the out-of-fold files written
C19_Witness ==
  /\ run.pc = "AssertionError"
  /\ Len(run.prediction.recording_id) = Len(run.submission.recording_id)
  /\ run.prediction.columns = run.submission.columns
  /\ \E i \in DOMAIN run.prediction.recording_id :
        \A j \in DOMAIN run.submission.recording_id :
           run.prediction.recording_id[i] # run.submission.recording_id[j]
  /\ OofFiles \subseteq run.files
  /\ "submission.csv" \notin run.files

\* table holds one row per distinct key of recording_ids, and every class
\* value of a row is the largest of that class over the key's rows of values
IsGroupMax(table, recording_ids, values) ==
  /\ \A i \in DOMAIN recording_ids :
        \E k \in DOMAIN table : table[k].recording_id = recording_ids[i]
  /\ \A k \in DOMAIN table :
        \E i \in DOMAIN recording_ids : table[k].recording_id = recording_ids[i]
  /\ \A k, l \in DOMAIN table :
        table[k].recording_id = table[l].recording_id => k = l
  /\ \A k \in DOMAIN table :
        LET rows == {i \in DOMAIN recording_ids :
                       recording_ids[i] = table[k].recording_id}
        IN \A c \in DOMAIN table[k].values :
              /\ \E i \in rows : values[i][c] = table[k].values[c]
              /\ \A i \in rows : values[i][c] <= table[k].values[c]

\* C20: the prediction table (out-of-fold or per-fold test) and the target
\* table hold one row per distinct recording_id the loader yielded, every
\* class value the maximum over the recording's windows, however the windows
\* were ordered and batched
C20_GroupMax ==
  ev.pc = "done" =>
     /\ IsGroupMax(ev.oof_pred_df, ev.recording_ids, Concatenate(ev.preds))
     /\ ev.mode = "valid" =>
           IsGroupMax(ev.oof_targ_df, ev.recording_ids, Concatenate(ev.targs))

\* C20 witness: two recordings over three windows in at least two batches;
\* a row's maxima come from different windows of its recording
C20_Witness ==
  /\ ev.pc = "done" /\ ev.mode = "valid"
  /\ Len(ev.preds) >= 2
  /\ Len(ev.oof_pred_df) = 2
  /\ \E k \in DOMAIN ev.oof_pred_df :
        /\ ev.oof_pred_df[k].values = <<500, 500>>
        /\ ev.oof_targ_df[k].values = <<One, One>>

\* C21: in the attention head, with weights of a class that are non-negative
\* and sum to one over the segments, clipwise_output is the weighted sum of
\* the segments' sigmoid outputs and lies in [0, 1], and logit is the sum of
\* the raw segment logits under the same weights and lies between the least
\* and the greatest segment logit.
C21_AttentionBounds ==
  (/\ head.status = "SED"
   /\ \A t \in 1..Len(head.norm_att) : head.norm_att[t] >= 0
   /\ SeqSum(head.norm_att) = AttOne)
    => LET T == 1..Len(head.segmentwise_logit)
       IN /\ head.clipwise_output =
               SeqSum([t \in T |-> head.norm_att[t] * head.segmentwise_output[t]])
          /\ 0 <= head.clipwise_output
          /\ head.clipwise_output <= AttOne * One
          /\ head.logit =
               SeqSum([t \in T |-> head.norm_att[t] * head.segmentwise_logit[t]])
          /\ AttOne * MinOf(head.segmentwise_logit) <= head.logit
          /\ head.logit <= AttOne * MaxOf(head.segmentwise_logit)

\* two segments of different logits share the weight: the clip's logit lies
\* strictly between them
C21_Witness ==
  /\ head.status = "SED"
  /\ \E t, u \in 1..Len(head.norm_att) :
       /\ head.norm_att[t] > 0
       /\ head.norm_att[u] > 0
       /\ head.segmentwise_logit[t] < head.segmentwise_logit[u]
  /\ AttOne * MinOf(head.segmentwise_logit) < head.logit
  /\ head.logit < AttOne * MaxOf(head.segmentwise_logit)

\* the values label and strong_label of the fetched example hold
LabelValues ==
  {out.weak[c] : c \in DOMAIN out.weak} \cup
  {out.strong[f][c] : f \in DOMAIN out.strong, c \in DOMAIN out.weak}

\* C22: with float_label off or no_lambda on, every label entry a mixup
\* dataset writes is exactly 1.0, for the primary and the secondary alike, so
\* the weak and strong labels hold only 0 and 1; in every configuration all
\* their values lie in [0, 1].
C22_LabelRange ==
  (FromMixup /\ Fetched)
    => /\ \A v \in LabelValues : 0 <= v /\ v <= One
       /\ (~ds.float_label \/ ds.no_lambda) => LabelValues \subseteq {0, One}

\* a mixed example under no_lambda with float_label on: both the primary and
\* the secondary wrote their species, with 1.0
C22_Witness ==
  /\ Mixed
  /\ ds.float_label
  /\ ds.no_lambda
  /\ \E c, d \in DOMAIN out.weak :
       /\ c # d
       /\ InPrimary(c) /\ out.weak[c] = One
       /\ InSecondary(d) /\ out.weak[d] = One
  /\ \E f \in DOMAIN out.strong : \E c \in DOMAIN out.weak : out.strong[f][c] = One

\* C23: in random mode the sampled window always overlaps the event it was
\* sampled for (t_min < offset + duration and t_max > offset), for short and
\* long events alike, so the species of the primary is always set in the weak
\* label.
C23_WindowOverlapsEvent ==
  (Fetched /\ RandomMode)
    => /\ Sample.t_min < out.offset + ds.duration
       /\ Sample.t_max > out.offset
       /\ out.weak[Sample.species_id] > 0

\* C24: in random mode, for an event shorter than duration that ends within
\* the clip, every returned window contains the whole event
\* (offset <= t_min and t_max <= offset + duration), also after the clamp of
\* the offset to clip_duration - duration.
C24_WindowContainsEvent ==
  (/\ Fetched /\ RandomModeAny
   /\ Sample.t_max - Sample.t_min < ds.duration
   /\ Sample.t_max <= CLIP_DURATION)
    => /\ out.offset <= Sample.t_min
       /\ Sample.t_max <= out.offset + ds.duration

\* the clamp moved the window of a short event near the clip's end, and the
\* window still holds the event
C24_Witness ==
  /\ Fetched /\ RandomModeAny
  /\ Sample.t_max - Sample.t_min < ds.duration
  /\ Sample.t_max <= CLIP_DURATION
  /\ Sample.t_max > CLIP_DURATION - Sec(1)
  /\ out.offset = CLIP_DURATION - ds.duration
  /\ out.offset + Sec(1) < Sample.t_min

\* the candidate offsets of the row fetched, as its dataset computes them
CandidatesOfSample ==
  IF ds.kind = "Additional"
  THEN ShortCandidates(Sample.t_min, Sample.t_max, ds.duration)
  ELSE RandomCandidates(Sample.t_min, Sample.t_max, ds.duration)

\* np.random.choice was given no candidate: the fetch raised before any offset
SamplerRaised ==
  /\ out.status = "error"
  /\ out.error = "ValueError"
  /\ out.recording_id = ""
  /\ CandidatesOfSample = {}

\* C25: in random mode the set of candidate offsets is non-empty, so the fetch
\* returns an offset, for every event with 0 < t_min < t_max <= clip_duration,
\* whatever its length relative to duration (shorter, equal or longer).
C25_CandidatesNonEmpty ==
  (/\ RandomModeAny /\ out.status # "none"
   /\ 0 < Sample.t_min
   /\ Sample.t_min < Sample.t_max
   /\ Sample.t_max <= CLIP_DURATION)
    => ~SamplerRaised

\* the span [offset + f * spf, offset + (f + 1) * spf) of frame f meets the
\* span [t_min, t_max) of event e, for spf = duration / n_frames
ActiveIn(e, f) ==
  /\ (e.t_min - out.offset) * ds.n_frames < (f + 1) * ds.duration
  /\ (e.t_max - out.offset) * ds.n_frames > f * ds.duration

\* C26: strong[f, c] is nonzero only if an overlapping event of species c is
\* active during frame f, that is, the frame's span meets [t_min, t_max);
\* this holds also when the start index is negative and the slice wraps.
C26_StrongSound ==
  (Fetched /\ ~FromMixup) =>
     \A f \in DOMAIN out.strong : \A c \in DOMAIN out.strong[f] :
        out.strong[f][c] # 0 =>
          \E i \in Overlapping :
             ds.tp[i].species_id = c /\ ActiveIn(ds.tp[i], f)

\* an event that began before the window wrote the window's last frame
\* through a negative start index
C26_Witness ==
  /\ Fetched /\ ~FromMixup
  /\ \E i \in DOMAIN out.events :
       /\ out.spans[i].start_index < 0
       /\ out.events[i].t_min < out.offset
       /\ (ds.n_frames - 1) \in WrittenRows(i)
       /\ out.strong[ds.n_frames - 1][out.events[i].species_id] # 0

\* the span of frame f lies wholly inside the span [t_min, t_max) of event e
WhollyInside(e, f) ==
  /\ (e.t_min - out.offset) * ds.n_frames <= f * ds.duration
  /\ (f + 1) * ds.duration <= (e.t_max - out.offset) * ds.n_frames

\* C27: for every overlapping event of species c, every frame f in
\* [0, frame_count) whose span lies wholly inside [t_min, t_max) has
\* strong[f, c] set, also for events that begin before the window's start or
\* span the whole window.
C27_StrongComplete ==
  (Fetched /\ ~FromMixup) =>
     \A i \in Overlapping : \A f \in DOMAIN out.strong :
        WhollyInside(ds.tp[i], f) => out.strong[f][ds.tp[i].species_id] # 0

\* the fetch is inside the re-draw loop
Drawing == out.status = "drawing"

\* the pool holds a row whose index differs from the primary's
HasOther == \E i \in DOMAIN Pool(ds) : Pool(ds)[i].index # out.index

\* the pool holds two rows of different index values
TwoDistinct ==
  \E i, j \in DOMAIN Pool(ds) : Pool(ds)[i].index # Pool(ds)[j].index

\* C28 as stated: whenever mixup is triggered the re-draw loop exits, under
\* fair draws, if and only if the pool holds at least two events of distinct
\* index values; here its only-if half: a loop that was left had such a pool.
C28_ExitsOnlyWithTwo ==
  out.status = "left" => TwoDistinct

\* C28 as amended: whenever mixup is triggered the re-draw loop exits, under
\* fair draws, if and only if the pool holds an event whose index differs from
\* the primary's; with a non-empty pool whose events all share the primary's
\* index the loop never exits and the fetch never completes.
C28_RedrawTerminates ==
  /\ (Drawing /\ HasOther) ~> (out.status = "left")
  /\ [](out.status = "left" => HasOther /\ out.mixup_index # out.index)
  /\ [][(Drawing /\ ~HasOther /\ Len(Pool(ds)) > 0) => out'.status = "drawing"]_vars

\* the loop was left with the only row of a pool
C28_Witness ==
  /\ out.status = "left"
  /\ Len(Pool(ds)) = 1
  /\ out.mixup_index # out.index

\* the recordings the fold's df and the event table tp share
InBoth == SeqRange(ds.df) \cap RecordingIds(tp0)

\* the rows of the whole event table that can have written class c: events of
\* species c that overlap the primary's window in the primary's recording or
\* the secondary's window in the partner's recording
Contributors(c) ==
  {i \in DOMAIN tp0 :
     /\ tp0[i].species_id = c
     /\ \/ /\ tp0[i].recording_id = out.recording_id
           /\ tp0[i].t_min < out.offset + ds.duration
           /\ tp0[i].t_max > out.offset
        \/ /\ out.use_mixup
           /\ tp0[i].recording_id = out.mixup_recording_id
           /\ tp0[i].t_min < out.mixup_offset + ds.duration
           /\ tp0[i].t_max > out.mixup_offset}

\* C29: fold isolation: the primary event of every example, its mixup partner
\* and every event that contributes to a label tensor belong to a recording
\* present in both df and tp; events of recordings outside df never influence
\* an example.
C29_FoldIsolation ==
  (Fetched /\ ds.kind # "WithFP") =>
     /\ Sample.recording_id \in InBoth
     /\ out.recording_id \in InBoth
     /\ out.use_mixup => out.mixup_recording_id \in InBoth
     /\ \A i \in DOMAIN out.events : out.events[i].recording_id \in InBoth
     /\ \A i \in DOMAIN out.mixup_events :
          out.mixup_events[i].recording_id \in InBoth
     /\ \A c \in DOMAIN out.weak :
          out.weak[c] # 0 =>
            \E i \in Contributors(c) : tp0[i].recording_id \in InBoth
     /\ \A f \in DOMAIN out.strong : \A c \in DOMAIN out.strong[f] :
          out.strong[f][c] # 0 =>
            \E i \in Contributors(c) : tp0[i].recording_id \in InBoth

\* a mixed example of a fold that leaves out a recording with events: primary
\* and partner come from two recordings of the fold, both with events in the
\* labels
C29_Witness ==
  /\ Mixed
  /\ RecordingIds(tp0) \ SeqRange(ds.df) # {}
  /\ out.recording_id # out.mixup_recording_id
  /\ out.events # <<>>
  /\ out.mixup_events # <<>>

====
